---- MODULE Spec2Model ----
(***************************************************************************)
(* mysqlreplace: bulk find-and-replace of a literal string over every text *)
(* column of every table of a MySQL database.                              *)
(*                                                                         *)
(* The repository holds two builds of the tool: src/main.go, which renders *)
(* a scanned value with fmt.Sprintf("%v", v), and src/unnamed/part_000,    *)
(* which renders it with convertToString and has a -v flag.  The variable  *)
(* `variant` says which build runs.  Strings are sequences of one-character*)
(* strings, so that substring search and replacement are computed.         *)
(***************************************************************************)
EXTENDS Integers, Sequences, FiniteSets, TLC

VARIABLES
    variant,    \* "main" (src/main.go) or "part000" (src/unnamed/part_000)
    config,     \* Config: Search, Replace, Verbose
    schema,     \* the tables of the database, in SHOW TABLES order: name, cols
    db,         \* current contents: db[t] is the sequence of stored rows of table t
    db0,        \* history: the contents when the run started
    pc,         \* position of the program
    ti,         \* main: index of the table of the current loop iteration
    total,      \* main: totalReplacements
    columns,    \* processTable: the classified text columns of the table
    cursor,     \* processTable: the rows of the SELECT, as read when it was issued
    ri,         \* processTable: index of the next row of the cursor
    count,      \* processTable: totalReplacements
    out,        \* the log lines main has written
    stmts,      \* history: the UPDATE statements handed to db.Exec
    hits,       \* history: hits[t][r] = number of UPDATEs that modified stored row r of t
    faults,     \* history: the database operations that failed
    started,    \* history: the tables processTable was called for
    vals        \* replacement passes over one value: <<v0>>, <<v0, v1>>, <<v0, v1, v2>>

vars == <<variant, config, schema, db, db0, pc, ti, total, columns, cursor, ri,
          count, out, stmts, hits, faults, started, vals>>

(***************************************************************************)
(* Bounds.                                                                 *)
(***************************************************************************)
MaxRows == 2        \* rows per table
MaxTables == 2      \* tables of a database of InitMulti
MaxLen == 3         \* length of the strings of InitReplace

(***************************************************************************)
(* Strings.                                                                *)
(***************************************************************************)
Str1(a) == <<a>>
Str2(a, b) == <<a, b>>

\* strings.Contains
Contains(s, sub) ==
    \E i \in 0..(Len(s) - Len(sub)) : SubSeq(s, i + 1, i + Len(sub)) = sub

HasPrefix(s, p) == Len(p) <= Len(s) /\ SubSeq(s, 1, Len(p)) = p

\* strings.Replace(s, old, new, 0): a limit of 0 replaces nothing.
ReplaceNone(s, old, new) == s

\* strings.ReplaceAll: every non-overlapping occurrence of old, left to right.
\* An empty old matches before every character and at the end.
RECURSIVE ReplaceAll(_, _, _)
ReplaceAll(s, old, new) ==
    IF old = <<>>
    THEN IF s = <<>> THEN new
         ELSE new \o <<Head(s)>> \o ReplaceAll(Tail(s), old, new)
    ELSE IF Len(s) < Len(old) THEN s
    ELSE IF HasPrefix(s, old)
         THEN new \o ReplaceAll(SubSeq(s, Len(old) + 1, Len(s)), old, new)
         ELSE <<Head(s)>> \o ReplaceAll(Tail(s), old, new)

LowerOf(c) ==
    CASE c = "C" -> "c" [] c = "H" -> "h" [] c = "A" -> "a" [] c = "R" -> "r"
      [] c = "T" -> "t" [] c = "E" -> "e" [] c = "X" -> "x" [] c = "V" -> "v"
      [] OTHER -> c

\* strings.ToLower
RECURSIVE ToLower(_)
ToLower(s) == IF s = <<>> THEN <<>> ELSE <<LowerOf(Head(s))>> \o ToLower(Tail(s))

(***************************************************************************)
(* Values.  A stored cell is NULL or a string.  A scanned value is what    *)
(* rows.Scan puts into an interface{}: nil, a []byte (every string, text   *)
(* or blob column under the MySQL driver) or an int64; a Go string is what *)
(* the tool itself binds as a SET argument.                                *)
(***************************************************************************)
NULL == [null |-> TRUE, s |-> <<>>]
Cell(s) == [null |-> FALSE, s |-> s]
Nil == [kind |-> "nil", s |-> <<>>]
GoString(s) == [kind |-> "string", s |-> s]

t_varchar == <<"v", "a", "r", "c", "h", "a", "r">>
t_text == <<"t", "e", "x", "t">>
t_char == <<"c", "h", "a", "r">>
t_int == <<"i", "n", "t">>
t_blob == <<"b", "l", "o", "b">>

\* rows.Scan into *interface{}: NULL is nil, an int column an int64, any
\* other column a []byte.
DriverValue(cell, typ) ==
    IF cell.null THEN Nil
    ELSE [kind |-> IF typ = t_int THEN "int64" ELSE "bytes", s |-> cell.s]

\* The decimal digits of the byte of a character.
ByteCode(c) ==
    CASE c = "a" -> <<"9", "7">>
      [] c = "b" -> <<"9", "8">>
      [] c = "f" -> <<"1", "0", "2">>
      [] c = "o" -> <<"1", "1", "1">>
      [] c = "r" -> <<"1", "1", "4">>
      [] c = "1" -> <<"4", "9">>
      [] c = "2" -> <<"5", "0">>
      [] c = "7" -> <<"5", "5">>
      [] c = "9" -> <<"5", "7">>
      [] c = " " -> <<"3", "2">>
      [] c = "[" -> <<"9", "1">>
      [] c = "]" -> <<"9", "3">>

RECURSIVE JoinCodes(_)
JoinCodes(s) ==
    IF s = <<>> THEN <<>>
    ELSE IF Len(s) = 1 THEN ByteCode(s[1])
    ELSE ByteCode(Head(s)) \o <<" ">> \o JoinCodes(Tail(s))

\* fmt.Sprintf("%v", v): a []byte prints as the list of its bytes in
\* decimal, "[97 98]"; a string as itself; an int64 in decimal (the model
\* keeps an integer as its decimal digits).
Sprintf_v(v) ==
    CASE v.kind = "bytes" -> <<"[">> \o JoinCodes(v.s) \o <<"]">>
      [] v.kind = "string" -> v.s
      [] v.kind = "int64" -> v.s
      [] v.kind = "nil" -> <<"<", "n", "i", "l", ">">>

convertToString(v) ==
    CASE v.kind = "bytes" -> v.s
      [] v.kind = "string" -> v.s
      [] OTHER -> Sprintf_v(v)

\* strValue of processTable, in the build that runs.
Render(v) == IF variant = "main" THEN Sprintf_v(v) ELSE convertToString(v)

(***************************************************************************)
(* Column classifier.                                                      *)
(***************************************************************************)
isText(typ) ==
    \/ Contains(ToLower(typ), t_char)
    \/ Contains(ToLower(typ), t_text)
    \/ Contains(ToLower(typ), t_varchar)

RECURSIVE TextFields(_)
TextFields(cols) ==
    IF cols = <<>> THEN <<>>
    ELSE (IF isText(Head(cols).typ) THEN <<Head(cols).field>> ELSE <<>>)
         \o TextFields(Tail(cols))

\* getTextColumns(db, table), DESCRIBE having succeeded
getTextColumns(t) == TextFields(schema[t].cols)

\* rows.Columns() of SELECT * FROM table
columnsListOf(t) == [i \in 1..Len(schema[t].cols) |-> schema[t].cols[i].field]

\* The rows SELECT * FROM table delivers, read from the table as it is now.
SelectAll(t) ==
    [r \in 1..Len(db[t]) |->
        [i \in 1..Len(schema[t].cols) |-> DriverValue(db[t][r][i], schema[t].cols[i].typ)]]

(***************************************************************************)
(* The row loop's body: which columns change.                              *)
(***************************************************************************)
\* Position of the first entry of columnsList equal to col, 0 if none.
FirstIndex(columnsList, col) ==
    IF \E i \in 1..Len(columnsList) : columnsList[i] = col
    THEN CHOOSE i \in 1..Len(columnsList) :
            /\ columnsList[i] = col
            /\ \A j \in 1..(i - 1) : columnsList[j] # col
    ELSE 0

\* A loop that records every non-null text column, changed or not.
RECURSIVE ChangesNoCompare(_, _, _)
ChangesNoCompare(cols, columnsList, values) ==
    IF cols = <<>> THEN <<>>
    ELSE LET col == Head(cols)
             i == FirstIndex(columnsList, col)
             rest == ChangesNoCompare(Tail(cols), columnsList, values)
         IN IF i = 0 \/ values[i].kind = "nil" THEN rest
            ELSE <<[col |-> col,
                    newValue |-> ReplaceAll(Render(values[i]), config.Search,
                                            config.Replace)]>> \o rest

\* for _, col := range columns { for i, colName := range columnsList { ... } }
\* The pending (column, newValue) pairs, in the order of columns.
RECURSIVE Changes(_, _, _)
Changes(cols, columnsList, values) ==
    IF cols = <<>> THEN <<>>
    ELSE LET col == Head(cols)
             i == FirstIndex(columnsList, col)
             rest == Changes(Tail(cols), columnsList, values)
         IN IF i = 0 \/ values[i].kind = "nil" THEN rest
            ELSE LET strValue == Render(values[i])
                     newValue == ReplaceAll(strValue, config.Search, config.Replace)
                 IN IF newValue # strValue
                    THEN <<[col |-> col, newValue |-> newValue]>> \o rest
                    ELSE rest

updatesOf(ch) == [j \in 1..Len(ch) |-> ch[j].col]
argsOf(ch) == [j \in 1..Len(ch) |-> GoString(ch[j].newValue)]

hasChangesAlways(ch) == TRUE

\* hasChanges, once the columns of the row have been looked at
hasChanges(ch) == Len(ch) > 0

(***************************************************************************)
(* updateRow: the UPDATE statement and its execution.                      *)
(***************************************************************************)
NoWhere == "no valid WHERE clauses found"

NonNil(values) ==
    SelectSeq([i \in 1..Len(values) |-> i], LAMBDA i : values[i].kind # "nil")

Statement(table, updates, args, whereCols, whereArgs) ==
    [err |-> IF Len(whereCols) = 0 THEN NoWhere ELSE "",
     table |-> table,
     updates |-> updates,
     whereClauses |-> whereCols,
     whereArgs |-> whereArgs,
     allArgs |-> args \o whereArgs]

\* A WHERE clause over every column of the row, null or not.
updateRowAllColumns(table, updates, args, columnsList, values) ==
    Statement(table, updates, args, columnsList, values)

\* A WHERE clause over the non-null columns that are not being SET.
updateRowUnchangedOnly(table, updates, args, columnsList, values) ==
    LET idx == SelectSeq(NonNil(values),
                         LAMBDA i : \A j \in 1..Len(updates) : updates[j] # columnsList[i])
    IN Statement(table, updates, args,
                 [k \in 1..Len(idx) |-> columnsList[idx[k]]],
                 [k \in 1..Len(idx) |-> values[idx[k]]])

\* updateRow up to db.Exec: err is NoWhere, or "" with the query and its
\* arguments.  updates holds the column of each "col = ?" of SET,
\* whereClauses the column of each "col = ?" of WHERE.
updateRow(table, updates, args, columnsList, values) ==
    LET idx == NonNil(values)
    IN Statement(table, updates, args,
                 [k \in 1..Len(idx) |-> columnsList[idx[k]]],
                 [k \in 1..Len(idx) |-> values[idx[k]]])

ColIndex(cols, name) == CHOOSE i \in 1..Len(cols) : cols[i].field = name

\* The value a bound argument stores or compares as.
Bound(v) == Cell(v.s)

\* WHERE c1 = ? AND c2 = ? ...: a NULL cell equals nothing.
Matches(row, cols, q) ==
    \A j \in 1..Len(q.whereClauses) :
        LET c == row[ColIndex(cols, q.whereClauses[j])]
        IN ~c.null /\ q.whereArgs[j].kind # "nil" /\ c = Bound(q.whereArgs[j])

\* SET c1 = ?, c2 = ? ...
Assign(row, cols, q) ==
    [i \in 1..Len(row) |->
        IF \E j \in 1..Len(q.updates) : q.updates[j] = cols[i].field
        THEN Bound(q.allArgs[CHOOSE j \in 1..Len(q.updates) : q.updates[j] = cols[i].field])
        ELSE row[i]]

\* db.Exec(query, allArgs...) on the table as it is now
Exec(rows, cols, q) ==
    [r \in 1..Len(rows) |->
        IF Matches(rows[r], cols, q) THEN Assign(rows[r], cols, q) ELSE rows[r]]

\* The stored rows the statement modifies.
Modified(rows, cols, q) ==
    {r \in 1..Len(rows) : Matches(rows[r], cols, q) /\ Assign(rows[r], cols, q) # rows[r]}

(***************************************************************************)
(* main's loop over the tables, and processTable.                          *)
(***************************************************************************)
fixed == <<variant, config, schema, db0, vals>>

\* A table error ends the run, as log.Fatalf would.
ReturnFatal(n, err) ==
    /\ IF err # ""
       THEN /\ out' = Append(out, [kind |-> "error", table |-> ti, n |-> 0, err |-> err])
            /\ total' = total
            /\ ti' = ti
            /\ pc' = "done"
       ELSE /\ total' = total + n
            /\ out' = IF n > 0 \/ config.Verbose
                      THEN Append(out, [kind |-> "table", table |-> ti, n |-> n, err |-> ""])
                      ELSE out
            /\ ti' = ti + 1
            /\ pc' = "main"
    /\ columns' = <<>>
    /\ cursor' = <<>>
    /\ ri' = 0
    /\ count' = 0

\* processTable returns (n, err) to main's loop body, which logs the error
\* and continues, or adds n to the total and logs the table's line; the
\* locals of processTable are gone.
Return(n, err) ==
    /\ IF err # ""
       THEN /\ out' = Append(out, [kind |-> "error", table |-> ti, n |-> 0, err |-> err])
            /\ total' = total
       ELSE /\ total' = total + n
            /\ out' = IF n > 0 \/ config.Verbose
                      THEN Append(out, [kind |-> "table", table |-> ti, n |-> n, err |-> ""])
                      ELSE out
    /\ ti' = ti + 1
    /\ pc' = "main"
    /\ columns' = <<>>
    /\ cursor' = <<>>
    /\ ri' = 0
    /\ count' = 0

Fault(op) == faults' = Append(faults, [table |-> ti, row |-> ri, op |-> op])

\* processTable is called; DESCRIBE fails.
DescribeFails ==
    /\ pc = "main" /\ ti <= Len(schema)
    /\ started' = Append(started, ti)
    /\ Fault("describe")
    /\ Return(0, "describe")
    /\ UNCHANGED <<fixed, db, stmts, hits>>

\* processTable is called; the table has no text column.
NoTextColumns ==
    /\ pc = "main" /\ ti <= Len(schema)
    /\ Len(getTextColumns(ti)) = 0
    /\ started' = Append(started, ti)
    /\ Return(0, "")
    /\ UNCHANGED <<fixed, db, stmts, hits, faults>>

\* processTable is called; the table has text columns.
TextColumns ==
    /\ pc = "main" /\ ti <= Len(schema)
    /\ Len(getTextColumns(ti)) # 0
    /\ started' = Append(started, ti)
    /\ columns' = getTextColumns(ti)
    /\ pc' = "query"
    /\ UNCHANGED <<fixed, db, ti, total, cursor, ri, count, out, stmts, hits, faults>>

\* SELECT * FROM table, or rows.Columns(), fails.
QueryFails ==
    /\ pc = "query"
    /\ \E op \in {"query", "columns"} :
          /\ Fault(op)
          /\ Return(0, op)
    /\ UNCHANGED <<fixed, db, stmts, hits, started>>

\* SELECT * FROM table
Query ==
    /\ pc = "query"
    /\ cursor' = SelectAll(ti)
    /\ ri' = 1
    /\ count' = 0
    /\ pc' = "rows"
    /\ UNCHANGED <<fixed, db, ti, total, columns, out, stmts, hits, faults, started>>

\* rows.Next() is false because the connection failed and not because the
\* rows are exhausted; rows.Err() is not looked at.
NextFails ==
    /\ pc = "rows" /\ ri <= Len(cursor)
    /\ Fault("next")
    /\ Return(count, "")
    /\ UNCHANGED <<fixed, db, stmts, hits, started>>

\* rows.Next() is false: the rows are exhausted.
RowsDone ==
    /\ pc = "rows" /\ ri = Len(cursor) + 1
    /\ Return(count, "")
    /\ UNCHANGED <<fixed, db, stmts, hits, faults, started>>

\* rows.Scan fails.
ScanFails ==
    /\ pc = "rows" /\ ri <= Len(cursor)
    /\ Fault("scan")
    /\ Return(0, "scan")
    /\ UNCHANGED <<fixed, db, stmts, hits, started>>

Issued(q, values, ok) ==
    [table |-> ti, row |-> ri, values |-> values, ok |-> ok,
     updates |-> q.updates, whereClauses |-> q.whereClauses,
     whereArgs |-> q.whereArgs, allArgs |-> q.allArgs]

\* One iteration of the row loop: the row is scanned, its text columns are
\* compared, and if any changed the UPDATE is built and executed.
ProcessRow ==
    /\ pc = "rows" /\ ri <= Len(cursor)
    /\ LET values == cursor[ri]
           columnsList == columnsListOf(ti)
           ch == Changes(columns, columnsList, values)
           q == updateRow(ti, updatesOf(ch), argsOf(ch), columnsList, values)
           cols == schema[ti].cols
       IN IF ~hasChanges(ch)
          THEN /\ ri' = ri + 1
               /\ count' = count + Len(ch)
               /\ UNCHANGED <<db, stmts, hits, ti, total, columns, cursor, out, pc>>
          ELSE IF q.err # ""
          THEN /\ Return(0, q.err)
               /\ UNCHANGED <<db, stmts, hits>>
          ELSE /\ db' = [db EXCEPT ![ti] = Exec(db[ti], cols, q)]
               /\ hits' = [hits EXCEPT ![ti] =
                              [r \in 1..Len(db[ti]) |->
                                  IF r \in Modified(db[ti], cols, q)
                                  THEN hits[ti][r] + 1 ELSE hits[ti][r]]]
               /\ stmts' = Append(stmts, Issued(q, values, TRUE))
               /\ ri' = ri + 1
               /\ count' = count + Len(ch)
               /\ UNCHANGED <<ti, total, columns, cursor, out, pc>>
    /\ UNCHANGED <<fixed, faults, started>>

\* The row is scanned and has changes; db.Exec of its UPDATE fails.
ExecFails ==
    /\ pc = "rows" /\ ri <= Len(cursor)
    /\ LET values == cursor[ri]
           columnsList == columnsListOf(ti)
           ch == Changes(columns, columnsList, values)
           q == updateRow(ti, updatesOf(ch), argsOf(ch), columnsList, values)
       IN /\ hasChanges(ch)
          /\ q.err = ""
          /\ stmts' = Append(stmts, Issued(q, values, FALSE))
    /\ Fault("exec")
    /\ Return(0, "exec")
    /\ UNCHANGED <<fixed, db, hits, started>>

\* The loop over the tables is over: the total is logged.
Finish ==
    /\ pc = "main" /\ ti = Len(schema) + 1
    /\ out' = Append(out, [kind |-> "total", table |-> 0, n |-> total, err |-> ""])
    /\ pc' = "done"
    /\ UNCHANGED <<fixed, db, ti, total, columns, cursor, ri, count, stmts, hits,
                   faults, started>>

Next ==
    \/ DescribeFails
    \/ NoTextColumns
    \/ TextColumns
    \/ QueryFails
    \/ Query
    \/ NextFails
    \/ RowsDone
    \/ ScanFails
    \/ ProcessRow
    \/ ExecFails
    \/ Finish

(***************************************************************************)
(* Initial states: the flags, and the database the tool connects to.       *)
(***************************************************************************)
s_a == Str1("a")
s_aa == Str2("a", "a")
s_b == Str1("b")

\* -search and -replace; parseFlags refuses an empty -search.
Pairs == {<<s_a, s_aa>>, <<s_a, s_b>>, <<s_aa, s_a>>, <<s_a, <<>>>>, <<Str1("9"), <<>>>>}
PairsMulti == {<<s_a, s_aa>>, <<s_a, s_b>>}

\* Which build runs, and -v, which only part_000 has.
Builds == {<<"main", FALSE>>, <<"part000", FALSE>>, <<"part000", TRUE>>}

TextCells == {NULL, Cell(s_a), Cell(s_aa)}
IntCells == {NULL, Cell(Str1("1"))}
BlobCells == {NULL, Cell(s_a)}
CellsOf(typ) == IF typ = t_int THEN IntCells ELSE IF typ = t_blob THEN BlobCells ELSE TextCells

Col(field, typ) == [field |-> field, typ |-> typ]
SchemaPool ==
    { [cols |-> <<Col("c1", t_varchar), Col("c2", t_text)>>],
      [cols |-> <<Col("id", t_int), Col("c1", t_char)>>],
      [cols |-> <<Col("id", t_int), Col("c2", t_blob)>>] }

RowsOf(cols) ==
    {r \in [1..Len(cols) -> TextCells \cup IntCells \cup BlobCells] :
        \A i \in 1..Len(cols) : r[i] \in CellsOf(cols[i].typ)}

TablesOf(cols) == UNION {[1..k -> RowsOf(cols)] : k \in 0..MaxRows}

Start ==
    /\ db0 = db
    /\ pc = "main"
    /\ ti = 1
    /\ total = 0
    /\ columns = <<>>
    /\ cursor = <<>>
    /\ ri = 0
    /\ count = 0
    /\ out = <<>>
    /\ stmts = <<>>
    /\ hits = [t \in 1..Len(db) |-> [r \in 1..Len(db[t]) |-> 0]]
    /\ faults = <<>>
    /\ started = <<>>
    /\ vals = <<>>

\* A database of one table.
Init ==
    /\ \E b \in Builds, p \in Pairs :
          /\ variant = b[1]
          /\ config = [Search |-> p[1], Replace |-> p[2], Verbose |-> b[2]]
    /\ \E sc \in SchemaPool :
          /\ schema = <<sc>>
          /\ \E rows \in TablesOf(sc.cols) : db = <<rows>>
    /\ Start

Spec == Init /\ [][Next]_vars

(***************************************************************************)
(* A database of several one-column tables, whose text cells all hold "a". *)
(***************************************************************************)
MultiPool ==
    {[cols |-> <<Col("c1", t_varchar)>>, rows |-> rows] :
        rows \in UNION {[1..k -> {<<Cell(s_a)>>}] : k \in 0..MaxRows}}
    \cup {[cols |-> <<Col("id", t_int)>>, rows |-> <<<<Cell(Str1("1"))>>>>]}

InitMulti ==
    /\ \E b \in Builds, p \in PairsMulti :
          /\ variant = b[1]
          /\ config = [Search |-> p[1], Replace |-> p[2], Verbose |-> b[2]]
    /\ \E k \in 1..MaxTables : \E tbls \in [1..k -> MultiPool] :
          /\ schema = [t \in 1..k |-> [cols |-> tbls[t].cols]]
          /\ db = [t \in 1..k |-> tbls[t].rows]
    /\ Start

SpecMulti == InitMulti /\ [][Next]_vars

\* The program is sequential and every step of it terminates: it never
\* stops while a step is possible.
FairSpecMulti == SpecMulti /\ WF_vars(Next)

(***************************************************************************)
(* The replacement alone, applied to one value by successive runs.         *)
(***************************************************************************)
RECURSIVE StringsOver(_, _)
StringsOver(alphabet, n) ==
    IF n = 0 THEN {<<>>}
    ELSE LET shorter == StringsOver(alphabet, n - 1)
         IN shorter \cup {Append(w, c) : w \in shorter, c \in alphabet}

Values == StringsOver({"a", "b"}, MaxLen)
s_foo == <<"f", "o", "o">>
s_bar == <<"b", "a", "r">>
FooValues == StringsOver({"f", "o", "b", "r"}, MaxLen + 2)

InitReplace ==
    /\ variant = "part000"
    /\ \/ \E S \in Values \ {<<>>}, R \in Values, v \in Values :
             /\ config = [Search |-> S, Replace |-> R, Verbose |-> FALSE]
             /\ vals = <<v>>
       \/ \E v \in FooValues :
             /\ config = [Search |-> s_foo, Replace |-> s_bar, Verbose |-> FALSE]
             /\ vals = <<v>>
    /\ schema = <<>> /\ db = <<>> /\ db0 = <<>> /\ hits = <<>>
    /\ pc = "pass" /\ ti = 0 /\ total = 0
    /\ columns = <<>> /\ cursor = <<>> /\ ri = 0 /\ count = 0
    /\ out = <<>> /\ stmts = <<>> /\ faults = <<>> /\ started = <<>>

\* One run's newValue for the value the previous run left.
Pass ==
    /\ pc = "pass" /\ Len(vals) < 3
    /\ vals' = Append(vals, ReplaceAll(vals[Len(vals)], config.Search, config.Replace))
    /\ UNCHANGED <<variant, config, schema, db, db0, pc, ti, total, columns, cursor,
                   ri, count, out, stmts, hits, faults, started>>

SpecReplace == InitReplace /\ [][Pass]_vars

(***************************************************************************)
(* Properties.                                                             *)
(***************************************************************************)
Replaced(s) == ReplaceAll(s, config.Search, config.Replace)

TextPositions(t) == {i \in 1..Len(schema[t].cols) : isText(schema[t].cols[i].typ)}

\* The positions of the classified text columns whose value in the scanned
\* row is non-null and differs from its replacement.
K(t, values) ==
    {i \in TextPositions(t) :
        /\ values[i].kind # "nil"
        /\ Replaced(Render(values[i])) # Render(values[i])}

FieldsAt(t, pos) == {schema[t].cols[i].field : i \in pos}

Last(q) == q[Len(q)]

\* The step scans the row at ri and carries its iteration through: the loop
\* moves on to the next row, or the row's UPDATE is handed to db.Exec.
RowHandled ==
    /\ pc = "rows" /\ ri <= Len(cursor)
    /\ \/ pc' = "rows" /\ ri' = ri + 1
       \/ Len(stmts') = Len(stmts) + 1

\* C1: for every scanned row, with K its changed classified columns: if K
\* is empty no UPDATE is issued and the table's count is unchanged; else
\* exactly one UPDATE is issued, its SET assigns exactly the columns of K,
\* each to its replaced value, and the count grows by |K|.
C1_OneUpdatePerChangedRow ==
    [][RowHandled =>
        LET k == K(ti, cursor[ri])
        IN IF k = {}
           THEN stmts' = stmts /\ count' = count
           ELSE /\ Len(stmts') = Len(stmts) + 1
                /\ SubSeq(stmts', 1, Len(stmts)) = stmts
                /\ LET u == Last(stmts')
                   IN /\ u.table = ti /\ u.row = ri
                      /\ Len(u.updates) = Cardinality(k)
                      /\ {u.updates[j] : j \in 1..Len(u.updates)} = FieldsAt(ti, k)
                      /\ \A j \in 1..Len(u.updates) :
                            \E i \in k :
                               /\ schema[ti].cols[i].field = u.updates[j]
                               /\ u.allArgs[j] = GoString(Replaced(Render(cursor[ri][i])))
                      /\ u.ok => count' = count + Cardinality(k)]_vars

\* C1 witness: one UPDATE was issued for a row whose changed value holds
\* the search string twice, and the count is 1.
C1_Witness ==
    /\ pc = "rows" /\ ri = 2 /\ count = 1 /\ Len(stmts) = 1
    /\ stmts[1].ok /\ Len(stmts[1].updates) = 1
    /\ config.Search = s_a
    /\ \E i \in K(ti, cursor[1]) : Render(cursor[1][i]) = s_aa

\* C2: every stored row is modified by at most one of the UPDATE statements
\* of a scan pass.
C2_RowModifiedAtMostOnce ==
    \A t \in 1..Len(hits) : \A r \in 1..Len(hits[t]) : hits[t][r] <= 1

\* C3: when a run in which no database operation failed finishes, every
\* non-null value of a classified text column is the replacement of the
\* value the cell held when the run started.
C3_FinalValuesReplaced ==
    (pc = "done" /\ faults = <<>>) =>
        \A t \in 1..Len(db) : \A r \in 1..Len(db[t]) : \A i \in TextPositions(t) :
            ~db0[t][r][i].null => db[t][r][i] = Cell(Replaced(db0[t][r][i].s))

NonNilPositions(values) == {i \in 1..Len(values) : values[i].kind # "nil"}

\* C4: the WHERE clause of every UPDATE has one equality predicate for each
\* column whose original value is non-null and for no other, bound to the
\* original value; no null column is in SET or WHERE; the arguments are the
\* SET values in SET order, then the WHERE values in WHERE order.
C4_WhereClause ==
    \A n \in 1..Len(stmts) :
        LET u == stmts[n]
            cl == columnsListOf(u.table)
            nn == NonNilPositions(u.values)
        IN /\ Len(u.whereClauses) = Cardinality(nn)
           /\ Len(u.whereArgs) = Len(u.whereClauses)
           /\ \A i \in nn : \E j \in 1..Len(u.whereClauses) :
                 u.whereClauses[j] = cl[i] /\ u.whereArgs[j] = u.values[i]
           /\ \A j \in 1..Len(u.whereClauses) : \E i \in nn : u.whereClauses[j] = cl[i]
           /\ \A j \in 1..Len(u.updates) : \E i \in nn : u.updates[j] = cl[i]
           /\ Len(u.allArgs) = Len(u.updates) + Len(u.whereArgs)
           /\ \A j \in 1..Len(u.updates) : u.allArgs[j].kind = "string"
           /\ SubSeq(u.allArgs, Len(u.updates) + 1, Len(u.allArgs)) = u.whereArgs

\* C4 witness: an UPDATE was built for a row with a null column and a
\* changed column.
C4_Witness ==
    \E n \in 1..Len(stmts) :
        /\ \E i \in 1..Len(stmts[n].values) : stmts[n].values[i].kind = "nil"
        /\ Len(stmts[n].whereClauses) = 1
        /\ stmts[n].whereClauses = stmts[n].updates

\* C5: a cell that is NULL when the run starts is NULL in every state.
C5_NullPreserved ==
    \A t \in 1..Len(db) : \A r \in 1..Len(db[t]) : \A i \in 1..Len(db[t][r]) :
        db0[t][r][i].null => db[t][r][i].null

\* C5 witness: the UPDATE of the first row also modified the second row,
\* which is not yet scanned and has a NULL cell.
C5_Witness ==
    /\ pc = "rows" /\ ri = 2 /\ Len(cursor) = 2
    /\ hits[ti][2] = 1
    /\ \E i \in 1..Len(db[ti][2]) : db[ti][2][i].null

AllNil(values) == \A i \in 1..Len(values) : values[i].kind = "nil"

\* C6 as claimed: the loop never moves past a scanned row in which every
\* column is null; the run aborts there.
C6_AllNullRowAborts ==
    pc = "rows" => \A j \in 1..(ri - 1) : ~AllNil(cursor[j])

\* C6 amended: a scanned row in which every column is null is skipped: no
\* UPDATE, no log line, no change of the count or the database, and the
\* loop moves on to the next row; no table reports the error "no valid
\* WHERE clauses found".
C6_AllNullRowSkipped ==
    /\ [][(pc = "rows" /\ ri <= Len(cursor) /\ AllNil(cursor[ri]) /\ faults' = faults)
            => /\ pc' = "rows" /\ ri' = ri + 1
               /\ UNCHANGED <<db, stmts, out, count, total, ti>>]_vars
    /\ [](\A n \in 1..Len(out) : out[n].err # NoWhere)

\* C6 witness: the loop has moved past a row in which every column is null.
C6_Witness ==
    pc = "rows" /\ ri = 2 /\ Len(cursor) = 2 /\ AllNil(cursor[1]) /\ out = <<>>

\* C9: if the row scan of a table fails, when the SELECT is issued or while
\* its rows are iterated, main logs an error for the table and no count.
C9_ScanFailureReported ==
    \A n \in 1..Len(faults) :
        faults[n].op \in {"query", "columns", "scan", "next"} =>
            /\ \E m \in 1..Len(out) : out[m].kind = "error" /\ out[m].table = faults[n].table
            /\ \A m \in 1..Len(out) : ~(out[m].kind = "table" /\ out[m].table = faults[n].table)

RECURSIVE SetColumns(_)
SetColumns(q) ==
    IF q = <<>> THEN 0
    ELSE (IF Head(q).ok THEN Len(Head(q).updates) ELSE 0) + SetColumns(Tail(q))

\* C10: the total printed at the end is the number of columns assigned by
\* the UPDATE statements that were executed successfully.
C10_TotalIsAllChanges ==
    pc = "done" => Last(out).kind = "total" /\ Last(out).n = SetColumns(stmts)

\* A step in which a database operation fails.
TableFails == Len(faults') = Len(faults) + 1

\* C7: a failure while a table is processed leaves the database as it is
\* and moves main to the next table; the run ends with processTable called
\* for every table, in order, and the total logged last.
C7_ErrorsDoNotStopTheRun ==
    /\ [][TableFails => (db' = db /\ pc' = "main" /\ ti' = ti + 1)]_vars
    /\ <>(/\ pc = "done"
          /\ Last(out).kind = "total"
          /\ started = [t \in 1..Len(schema) |-> t])

\* C7 witness: the run is over; the first table failed after one of its
\* rows was updated, the update is still in the database, and a row of the
\* second table was updated after that.
C7_Witness ==
    /\ pc = "done" /\ Len(schema) >= 2
    /\ \E m \in 1..Len(out) : out[m].kind = "error" /\ out[m].table = 1
    /\ \E n \in 1..Len(stmts) : stmts[n].ok /\ stmts[n].table = 1
    /\ db[1] # db0[1]
    /\ \E n \in 1..Len(stmts) : stmts[n].ok /\ stmts[n].table = 2

\* The replacement is a fixed point on a second pass, for every value.
Idempotent(S, R) ==
    \A v \in Values : ReplaceAll(ReplaceAll(v, S, R), S, R) = ReplaceAll(v, S, R)

RECURSIVE Occurrences(_, _)
Occurrences(s, c) ==
    IF s = <<>> THEN 0 ELSE (IF Head(s) = c THEN 1 ELSE 0) + Occurrences(Tail(s), c)

\* C8 as claimed: the replacement is idempotent on a second pass only if
\* replace does not contain search.
C8_IdempotentOnlyIfNotContained ==
    Idempotent(config.Search, config.Replace) => ~Contains(config.Replace, config.Search)

\* C8 amended: the replacement is idempotent on a second pass only if
\* replace does not contain search or is search itself; with "foo" and
\* "bar" the second pass changes no value; with "a" and "aa" a value the
\* first pass changed is changed again, its "a"s doubled.
C8_IdempotentOnlyIfNotContainedOrEqual ==
    /\ Idempotent(config.Search, config.Replace) =>
          (~Contains(config.Replace, config.Search) \/ config.Replace = config.Search)
    /\ (config.Search = s_foo /\ config.Replace = s_bar /\ Len(vals) = 3)
          => vals[3] = vals[2]
    /\ (config.Search = s_a /\ config.Replace = s_aa /\ Len(vals) = 3 /\ vals[2] # vals[1])
          => /\ vals[3] # vals[2]
             /\ Occurrences(vals[3], "a") = 2 * Occurrences(vals[2], "a")

\* C8 witness: replace is search itself, the value holds it, and two passes
\* have left the value as it was.
C8_Witness ==
    /\ Len(vals) = 3
    /\ config.Replace = config.Search
    /\ Contains(vals[1], config.Search)
    /\ vals[3] = vals[1]

====
